---- MODULE Spec2Model ----
(***************************************************************************)
(* Assessment session pipeline of andru-assessment-backend:                *)
(*   AssessmentServiceLite  (session store, batch trigger, completion)     *)
(*   RealTimeInsightEngine  (analyzeBatch1..3)                             *)
(*   ClaudeAIService        (AI client with fallback)                      *)
(*   SkillAssessmentEngine  (final results)                                *)
(*   CircuitBreaker         (services/errorHandler.ts)                     *)
(*   RateLimiter            (services/errorHandler.ts)                     *)
(*   RetryHandler           (services/errorHandler.ts)                     *)
(* Every await of the code is a suspension point: a call is a sequence of  *)
(* steps, one per stretch of code between two awaits.                      *)
(***************************************************************************)
EXTENDS Integers, Sequences, FiniteSets, TLC

(***************************************************************************)
(* Bounds of the model.                                                    *)
(***************************************************************************)
MaxSessions == 1
MaxResponses == 13
NumCallers == 2

SessionIds == 1..MaxSessions
Callers == 1..NumCallers
\* callers of the one-call-at-a-time specification
SeqCallers == {1}

(***************************************************************************)
(* State.                                                                  *)
(***************************************************************************)
VARIABLES
  activeSessions,  \* AssessmentServiceLite.activeSessions: sessionId -> session
  isConfigured,    \* ClaudeAIService.isConfigured
  endpointUp,      \* environment: FALSE when the AI endpoint is unreachable
  pc,              \* per caller: the await its call is suspended at, or "idle"
  frame,           \* per caller: the locals of its suspended call
  returned,        \* the caller and the value of a call that returns in this step
  sent,            \* what this step sends out (persistence, AI endpoint, log)
  now,             \* Date.now()
  states,          \* CircuitBreaker.states: key -> the state object stored
  heap,            \* the state objects CircuitBreaker.execute created
  options,         \* the options the breaker's calls are made with
  cbPc,            \* per breaker call: "idle" or "running" (await operation())
  cbObj,           \* per breaker call: the object its local `state` refers to
  cbEvent,         \* what this step did to a breaker call
  consecFailures,  \* history: failed operations since the last success
  lastFailureAt,   \* history: Date.now() of the last failed operation
  probeSuccesses,  \* history: successes in a row since the circuit half-opened
  invocations,     \* history: number of operations invoked
  endpointAnswers, \* environment: FALSE when the AI endpoint never answers
  limits,          \* RateLimiter.limits: key -> {count, resetTime}
  rlOptions,       \* the maxRequests and windowMs the limiter is called with
  rlCalls,         \* history: number of limiter calls made
  windowCalls,     \* history: per key, the calls made in its current window
  rlResult,        \* the key and the answer of the last limiter call
  rtArgs,          \* withRetry's maxRetries, delayMs, backoffMultiplier
  rtPc,            \* withRetry: "idle", "operation", "delay" or "done"
  attempt,         \* withRetry's loop variable
  lastError,       \* withRetry's lastError
  rtOutcome,       \* what withRetry returned or raised
  opErrors,        \* history: the outcome of each invocation of the operation
  rtDelays,        \* history: the delays withRetry waited, in order
  aiInput,         \* the request and the endpoint's reply given to the client
  aiOutput         \* what the engine built from the client's answer

sessVars == <<activeSessions, isConfigured, endpointUp, endpointAnswers, pc,
              frame, returned, sent>>

rlVars == <<limits, rlOptions, rlCalls, windowCalls, rlResult>>

rtVars == <<rtArgs, rtPc, attempt, lastError, rtOutcome, opErrors, rtDelays>>

aiVars == <<aiInput, aiOutput>>

utilVars == <<rlVars, rtVars, aiVars>>

cbVars == <<states, heap, options, cbPc, cbObj, cbEvent, consecFailures,
            lastFailureAt, probeSuccesses, invocations>>

vars == <<sessVars, now, cbVars, utilVars>>

\* session.completedAt before completion (the field is absent)
Undefined == -1

\* AssessmentResponse: the payload is opaque to the pipeline
Responses == {"scale"}

\* the values of AssessmentSession.status (results_generated is never assigned)
Statuses ==
  {"in_progress", "insight_generated", "completed", "results_generated"}

\* the session object built by startAssessment
NewSession ==
  [responses |-> <<>>, insights |-> <<>>, status |-> "in_progress",
   completedAt |-> Undefined]

NoInsight ==
  [batchNumber |-> 0, questionRange |-> "", insight |-> "", confidence |-> 0]
\* the five skill levels of an assessment
Skills(ca, bc, rs, va, st) ==
  [customerAnalysis |-> ca, businessCommunication |-> bc,
   revenueStrategy |-> rs, valueArticulation |-> va, strategicThinking |-> st]
SkillNames ==
  {"customerAnalysis", "businessCommunication", "revenueStrategy",
   "valueArticulation", "strategicThinking"}
NoResults ==
  [overallScore |-> -1, skillLevels |-> Skills(0, 0, 0, 0, 0),
   priorities |-> {}, roiMultiplier10 |-> 0, confidence |-> 0,
   isHighPriority |-> FALSE, leadPriority |-> "", impactTimeline |-> ""]
\* index: the position of the response an addResponse call appended
\* aiCalls: the calls to the AI endpoint the suspended call has made
\* stored: what storeCompletedAssessment answered to storeResults
\* previousInsights: the insights handed to analyzeBatchN
NoFrame == [sessionId |-> 0, index |-> 0, batchNumber |-> 0, aiCalls |-> 0,
            insight |-> NoInsight, results |-> NoResults, stored |-> "",
            previousInsights |-> <<>>]
NoResult == [op |-> "", success |-> FALSE, error |-> "", sessionId |-> 0,
             results |-> NoResults]
NoReturn == [caller |-> 0, value |-> NoResult]

(***************************************************************************)
(* ClaudeAIService: the AI client.  A reply of the endpoint is what the    *)
(* awaited fetch produces: a rejection, a non-2xx status, or a text that   *)
(* holds a JSON object or none.  A number field that is absent or 0 is     *)
(* falsy for the code's `||` defaults.                                     *)
(***************************************************************************)
Min(a, b) == IF a < b THEN a ELSE b
Max(a, b) == IF a > b THEN a ELSE b

\* JavaScript `x || d` on a number field (0 stands for 0 and for absent)
OrDefault(x, d) == IF x = 0 THEN d ELSE x

FallbackText == "Based on your responses, you show strong technical understanding"
AIText == "insight written by the AI"

FallbackImpact == "Potential revenue impact from improved sales conversations"
FallbackReasoning == "Fallback analysis based on standard assessment patterns"
DefaultImpact == "Revenue impact"
DefaultReasoning == "AI analysis based on assessment responses"
AIChallenge == "Buyer Conversations Challenge"
AIImpact == "business impact written by the AI"
AIReasoning == "reasoning written by the AI"

\* a string field that is absent is "", which is falsy as the absent field is
InsightReply(kind, hasJson, challenge, text, impact, conf, reasoning) ==
  [kind |-> kind, hasJson |-> hasJson, challengeIdentified |-> challenge,
   insight |-> text, businessImpact |-> impact, confidence |-> conf,
   reasoning |-> reasoning]

\* what the endpoint may answer to an insight prompt
InsightReplies ==
  { InsightReply("reject", FALSE, "", "", "", 0, ""),
    InsightReply("status", FALSE, "", "", "", 0, ""),
    InsightReply("text", FALSE, "", "", "", 0, ""),
    InsightReply("text", TRUE, "", AIText, AIImpact, 85, AIReasoning),
    InsightReply("text", TRUE, AIChallenge, "", AIImpact, 85, AIReasoning),
    InsightReply("text", TRUE, AIChallenge, AIText, AIImpact, 85,
                 AIReasoning) }

\* the replies the environment can give: rejections only when the endpoint
\* is unreachable
Reachable(replies) ==
  IF endpointUp THEN replies ELSE {r \in replies : r.kind = "reject"}

\* callClaudeAPI: raises when fetch rejects or the status is not ok
CallClaudeAPI(reply) ==
  [raised |-> reply.kind \in {"reject", "status"}, text |-> reply]

GetFallbackInsight ==
  [challengeIdentified |-> "Technical Translation Challenge",
   insight |-> FallbackText, businessImpact |-> FallbackImpact,
   confidence |-> 70, reasoning |-> FallbackReasoning]

\* a faulty variant: a payload without insight text is not replaced by the
\* fallback
ParseInsightResponseUnchecked(text) ==
  IF ~text.hasJson THEN GetFallbackInsight
  ELSE IF text.challengeIdentified = ""
       THEN GetFallbackInsight
  ELSE [challengeIdentified |-> text.challengeIdentified,
        insight |-> text.insight,
        businessImpact |-> IF text.businessImpact = "" THEN DefaultImpact
                           ELSE text.businessImpact,
        confidence |-> Min(95, Max(60, OrDefault(text.confidence, 75))),
        reasoning |-> IF text.reasoning = "" THEN DefaultReasoning
                      ELSE text.reasoning]

\* parseInsightResponse: the fallback unless the text holds a JSON object
\* with challengeIdentified and insight
ParseInsightResponse(text) ==
  IF ~text.hasJson THEN GetFallbackInsight
  ELSE IF text.challengeIdentified = "" \/ text.insight = ""
       THEN GetFallbackInsight
  ELSE [challengeIdentified |-> text.challengeIdentified,
        insight |-> text.insight,
        businessImpact |-> IF text.businessImpact = "" THEN DefaultImpact
                           ELSE text.businessImpact,
        confidence |-> Min(95, Max(60, OrDefault(text.confidence, 75))),
        reasoning |-> IF text.reasoning = "" THEN DefaultReasoning
                      ELSE text.reasoning]

\* ClaudeAIService.generateInsight: [raised, value]
GenerateInsight(configured, reply) ==
  IF ~configured THEN [raised |-> FALSE, value |-> GetFallbackInsight]
  ELSE LET r == CallClaudeAPI(reply) IN
       IF r.raised THEN [raised |-> FALSE, value |-> GetFallbackInsight]
       ELSE [raised |-> FALSE, value |-> ParseInsightResponse(r.text)]

QuestionRange(batchNumber) ==
  CASE batchNumber = 1 -> "1-4"
    [] batchNumber = 2 -> "5-9"
    [] OTHER -> "10-12"

\* RealTimeInsightEngine.analyzeBatch1/2/3: the insightData built from the
\* client's answer
InsightData(batchNumber, aiInsight) ==
  [batchNumber |-> batchNumber, questionRange |-> QuestionRange(batchNumber),
   insight |-> aiInsight.insight, confidence |-> aiInsight.confidence]

FinalReply(kind, hasJson, score, skills, roi10, conf, isArray, priorities) ==
  [kind |-> kind, hasJson |-> hasJson, overallScore |-> score,
   skillLevels |-> skills, roiMultiplier10 |-> roi10, confidence |-> conf,
   challengesIsArray |-> isArray, priorities |-> priorities]

\* what the endpoint may answer to the final-assessment prompt
\* (roiMultiplier is kept in tenths: 3.0 is 30)
FinalReplies ==
  { FinalReply("reject", FALSE, 0, Skills(0, 0, 0, 0, 0), 0, 0, TRUE, {}),
    FinalReply("status", FALSE, 0, Skills(0, 0, 0, 0, 0), 0, 0, TRUE, {}),
    FinalReply("text", FALSE, 0, Skills(0, 0, 0, 0, 0), 0, 0, TRUE, {}),
    FinalReply("text", TRUE, 35, Skills(3, 12, 0, 4, 5), 10, 99, TRUE,
               {"critical"}),
    FinalReply("text", TRUE, 85, Skills(9, 8, 9, 8, 9), 35, 88, FALSE, {}) }

GetFallbackAssessment ==
  [overallScore |-> 70, skillLevels |-> Skills(7, 6, 8, 7, 6),
   roiMultiplier10 |-> 30, confidence |-> 75,
   challengesIsArray |-> TRUE, priorities |-> {"high"}]

\* a faulty variant: the numbers of the payload are taken as they are
ParseFinalAssessmentResponseUnclamped(text) ==
  IF ~text.hasJson THEN GetFallbackAssessment
  ELSE [overallScore |-> OrDefault(text.overallScore, 70),
        skillLevels |->
          [n \in SkillNames |->
             OrDefault(text.skillLevels[n],
                       GetFallbackAssessment.skillLevels[n])],
        roiMultiplier10 |-> OrDefault(text.roiMultiplier10, 30),
        confidence |-> Min(95, Max(70, OrDefault(text.confidence, 80))),
        challengesIsArray |-> text.challengesIsArray,
        priorities |-> text.priorities]

ParseFinalAssessmentResponse(text) ==
  IF ~text.hasJson THEN GetFallbackAssessment
  ELSE [overallScore |-> Min(100, Max(0, OrDefault(text.overallScore, 70))),
        skillLevels |->
          [n \in SkillNames |->
             Min(10, Max(0, OrDefault(text.skillLevels[n],
                                      GetFallbackAssessment.skillLevels[n])))],
        roiMultiplier10 |-> Max(20, OrDefault(text.roiMultiplier10, 30)),
        confidence |-> Min(95, Max(70, OrDefault(text.confidence, 80))),
        challengesIsArray |-> text.challengesIsArray,
        priorities |-> text.priorities]

\* a faulty variant: the fallback baseline carries the wrong score
GenerateFinalAssessmentZero(configured, reply) ==
  IF ~configured \/ CallClaudeAPI(reply).raised
  THEN [GetFallbackAssessment EXCEPT !.overallScore = 0]
  ELSE ParseFinalAssessmentResponse(reply)

\* ClaudeAIService.generateFinalAssessment (never raises)
GenerateFinalAssessment(configured, reply) ==
  IF ~configured THEN GetFallbackAssessment
  ELSE LET r == CallClaudeAPI(reply) IN
       IF r.raised THEN GetFallbackAssessment
       ELSE ParseFinalAssessmentResponse(r.text)

(***************************************************************************)
(* SkillAssessmentEngine.                                                  *)
(***************************************************************************)
\* a faulty variant: the challenges are not looked at
DetermineLeadPriorityByScore(score, priorities) ==
  IF score < 40 THEN "high"
  ELSE IF score < 60 THEN "medium"
  ELSE "low"

DetermineLeadPriority(score, priorities) ==
  IF score < 40 \/ "critical" \in priorities THEN "high"
  ELSE IF score < 60 \/ "high" \in priorities THEN "medium"
  ELSE "low"

DetermineImpactTimeline(score) ==
  IF score < 40 THEN "long_term"
  ELSE IF score < 70 THEN "medium_term"
  ELSE "short_term"

\* generateFinalResults up to its await of storeResults: raises when
\* challenges.some is not callable (the AI sent challenges that is no array)
FinalResults(aiAssessment) ==
  [raised |-> ~aiAssessment.challengesIsArray,
   value |->
     [overallScore |-> aiAssessment.overallScore,
      skillLevels |-> aiAssessment.skillLevels,
      priorities |-> aiAssessment.priorities,
      roiMultiplier10 |-> aiAssessment.roiMultiplier10,
      confidence |-> aiAssessment.confidence,
      isHighPriority |-> aiAssessment.overallScore < 60,
      leadPriority |-> DetermineLeadPriority(aiAssessment.overallScore,
                                            aiAssessment.priorities),
      impactTimeline |-> DetermineImpactTimeline(aiAssessment.overallScore)]]

(***************************************************************************)
(* AssessmentServiceLite.                                                  *)
(***************************************************************************)
HasBatch(insights, b) ==
  \E i \in 1..Len(insights) : insights[i].batchNumber = b

\* a faulty variant: the second milestone generates batch 1 again
CheckForInsightGenerationSlip(responseCount, insights) ==
  IF responseCount = 4 /\ ~HasBatch(insights, 1) THEN 1
  ELSE IF responseCount = 9 /\ ~HasBatch(insights, 2) THEN 1
  ELSE IF responseCount = 12 /\ ~HasBatch(insights, 3) THEN 3
  ELSE 0

\* checkForInsightGeneration: the batch to generate, 0 for none
CheckForInsightGeneration(responseCount, insights) ==
  IF responseCount = 4 /\ ~HasBatch(insights, 1) THEN 1
  ELSE IF responseCount = 9 /\ ~HasBatch(insights, 2) THEN 2
  ELSE IF responseCount = 12 /\ ~HasBatch(insights, 3) THEN 3
  ELSE 0

\* a faulty variant: the completion guard is off by one
CompletionAllowedOffByOne(responses) == Len(responses) >= 11

\* completeAssessment: the guard `responses.length < 12` does not reject
CompletionAllowed(responses) == ~(Len(responses) < 12)

Sent(kind, sessionId, status) ==
  [kind |-> kind, sessionId |-> sessionId, status |-> status]

Return(p, value) ==
  /\ returned' = [caller |-> p, value |-> value]
  /\ pc' = [pc EXCEPT ![p] = "idle"]
  /\ frame' = [frame EXCEPT ![p] = NoFrame]

Suspend(p, label, locals) ==
  /\ pc' = [pc EXCEPT ![p] = label]
  /\ frame' = [frame EXCEPT ![p] = locals]
  /\ returned' = NoReturn

Failure(op, sessionId, error) ==
  [NoResult EXCEPT !.op = op, !.sessionId = sessionId, !.error = error]
Success(op, sessionId) ==
  [NoResult EXCEPT !.op = op, !.sessionId = sessionId, !.success = TRUE]

\* startAssessment up to its await of createAssessmentSession
StartAssessment(p) ==
  /\ pc[p] = "idle"
  /\ DOMAIN activeSessions # SessionIds
  /\ LET sessionId ==
           CHOOSE s \in SessionIds \ DOMAIN activeSessions :
             \A t \in SessionIds \ DOMAIN activeSessions : s <= t
     IN /\ activeSessions' =
             [s \in DOMAIN activeSessions \cup {sessionId} |->
                IF s = sessionId THEN NewSession ELSE activeSessions[s]]
        /\ sent' = {Sent("session", sessionId, "")}
        /\ Suspend(p, "start_create", [NoFrame EXCEPT !.sessionId = sessionId])
  /\ UNCHANGED <<isConfigured, endpointUp, endpointAnswers, now, cbVars,
                 utilVars>>

\* startAssessment after the await: the call resolved or raised
StartAssessmentReturn(p) ==
  /\ pc[p] = "start_create"
  /\ \E ok \in BOOLEAN :
       Return(p, IF ok
                 THEN Success("startAssessment", frame[p].sessionId)
                 ELSE Failure("startAssessment", 0, "persistence raised"))
  /\ sent' = {}
  /\ UNCHANGED <<activeSessions, isConfigured, endpointUp, endpointAnswers,
                 now, cbVars, utilVars>>

\* addResponse on an unknown session
AddResponseNotFound(p, sessionId) ==
  /\ pc[p] = "idle"
  /\ sessionId \notin DOMAIN activeSessions
  /\ Return(p, Failure("addResponse", sessionId, "Session not found"))
  /\ sent' = {}
  /\ UNCHANGED <<activeSessions, isConfigured, endpointUp, endpointAnswers,
                 now, cbVars, utilVars>>

\* addResponse up to its await of storeAssessmentResponse
AddResponse(p, sessionId, response) ==
  /\ pc[p] = "idle"
  /\ sessionId \in DOMAIN activeSessions
  /\ Len(activeSessions[sessionId].responses) < MaxResponses
  /\ activeSessions' =
       [activeSessions EXCEPT ![sessionId].responses = Append(@, response)]
  /\ sent' = {Sent("response", sessionId, "")}
  /\ Suspend(p, "add_store",
             [NoFrame EXCEPT
                !.sessionId = sessionId,
                !.index = Len(activeSessions[sessionId].responses) + 1])
  /\ UNCHANGED <<isConfigured, endpointUp, endpointAnswers, now, cbVars,
                 utilVars>>

\* addResponse: storeAssessmentResponse raised; the catch returns the failure
AddResponseStoreRaised(p) ==
  /\ pc[p] = "add_store"
  /\ Return(p, Failure("addResponse", frame[p].sessionId,
                       "persistence raised"))
  /\ sent' = {}
  /\ UNCHANGED <<activeSessions, isConfigured, endpointUp, endpointAnswers,
                 now, cbVars, utilVars>>

\* addResponse: the store resolved; checkForInsightGeneration finds no batch
AddResponseNoBatch(p) ==
  /\ pc[p] = "add_store"
  /\ LET session == activeSessions[frame[p].sessionId] IN
       CheckForInsightGeneration(Len(session.responses), session.insights) = 0
  /\ Return(p, Success("addResponse", frame[p].sessionId))
  /\ sent' = {}
  /\ UNCHANGED <<activeSessions, isConfigured, endpointUp, endpointAnswers,
                 now, cbVars, utilVars>>

\* a faulty variant: only the first stored insight is handed on
PreviousInsightsFirstOnly(batchNumber, insights) ==
  IF batchNumber = 1 \/ insights = <<>> THEN <<>> ELSE <<insights[1]>>

\* generateInsight: batch 1 is analysed without previousInsights, batches 2
\* and 3 with session.insights
PreviousInsights(batchNumber, insights) ==
  IF batchNumber = 1 THEN <<>> ELSE insights

\* addResponse: the store resolved; checkForInsightGeneration finds a batch
\* and generateInsight runs up to the AI client's await of the endpoint
AddResponseGenerateInsight(p) ==
  /\ pc[p] = "add_store"
  /\ LET session == activeSessions[frame[p].sessionId]
         b == CheckForInsightGeneration(Len(session.responses),
                                         session.insights)
     IN /\ b # 0
        /\ Suspend(p, "add_ai",
                   [frame[p] EXCEPT
                      !.batchNumber = b,
                      !.aiCalls = IF isConfigured THEN 1 ELSE 0,
                      !.previousInsights =
                        PreviousInsights(b, session.insights)])
  /\ sent' = IF isConfigured
             THEN {Sent("fetch", frame[p].sessionId, "")}
             ELSE {}
  /\ UNCHANGED <<activeSessions, isConfigured, endpointUp, endpointAnswers,
                 now, cbVars, utilVars>>

\* analyzeBatchN after the client answered, up to storeInsight's await; a
\* raise is caught by AssessmentServiceLite.generateInsight.  The client's
\* await of fetch ends only when the endpoint answers or the request fails
AnalyzeBatch(p) ==
  /\ pc[p] = "add_ai"
  /\ isConfigured => endpointAnswers
  /\ \E reply \in Reachable(InsightReplies) :
       LET g == GenerateInsight(isConfigured, reply) IN
         IF g.raised
         THEN /\ Return(p, Success("addResponse", frame[p].sessionId))
              /\ sent' = {}
         ELSE /\ Suspend(p, "add_storeInsight",
                         [frame[p] EXCEPT
                            !.insight = InsightData(frame[p].batchNumber,
                                                    g.value)])
              /\ sent' = {Sent("status", frame[p].sessionId,
                               "insight_generated")}
  /\ UNCHANGED <<activeSessions, isConfigured, endpointUp, endpointAnswers,
                 now, cbVars, utilVars>>

\* generateInsight after analyzeBatchN returned: append the insight, set the
\* status, up to the await of updateAssessmentStatus
AppendInsight(p) ==
  /\ pc[p] = "add_storeInsight"
  /\ activeSessions' =
       [activeSessions EXCEPT
          ![frame[p].sessionId].insights = Append(@, frame[p].insight),
          ![frame[p].sessionId].status = "insight_generated"]
  /\ sent' = {Sent("status", frame[p].sessionId, "insight_generated")}
  /\ Suspend(p, "add_update", frame[p])
  /\ UNCHANGED <<isConfigured, endpointUp, endpointAnswers, now, cbVars,
                 utilVars>>

\* addResponse returns after the insight was generated
AddResponseReturn(p) ==
  /\ pc[p] = "add_update"
  /\ Return(p, Success("addResponse", frame[p].sessionId))
  /\ sent' = {}
  /\ UNCHANGED <<activeSessions, isConfigured, endpointUp, endpointAnswers,
                 now, cbVars, utilVars>>

\* completeAssessment on an unknown session
CompleteNotFound(p, sessionId) ==
  /\ pc[p] = "idle"
  /\ sessionId \notin DOMAIN activeSessions
  /\ Return(p, Failure("completeAssessment", sessionId, "Session not found"))
  /\ sent' = {}
  /\ UNCHANGED <<activeSessions, isConfigured, endpointUp, endpointAnswers,
                 now, cbVars, utilVars>>

\* completeAssessment before the 12th response
CompleteTooEarly(p, sessionId) ==
  /\ pc[p] = "idle"
  /\ sessionId \in DOMAIN activeSessions
  /\ ~CompletionAllowed(activeSessions[sessionId].responses)
  /\ Return(p, Failure("completeAssessment", sessionId,
                       "Assessment not complete - need 12 responses"))
  /\ sent' = {}
  /\ UNCHANGED <<activeSessions, isConfigured, endpointUp, endpointAnswers,
                 now, cbVars, utilVars>>

\* completeAssessment up to the AI client's await inside generateFinalResults
CompleteAssessment(p, sessionId) ==
  /\ pc[p] = "idle"
  /\ sessionId \in DOMAIN activeSessions
  /\ CompletionAllowed(activeSessions[sessionId].responses)
  /\ Suspend(p, "complete_ai",
             [NoFrame EXCEPT !.sessionId = sessionId,
                             !.aiCalls = IF isConfigured THEN 1 ELSE 0])
  /\ sent' = IF isConfigured THEN {Sent("fetch", sessionId, "")} ELSE {}
  /\ UNCHANGED <<activeSessions, isConfigured, endpointUp, endpointAnswers,
                 now, cbVars, utilVars>>

\* generateFinalResults after the client answered, up to storeResults' await;
\* a raise reaches completeAssessment's catch
GenerateFinalResults(p) ==
  /\ pc[p] = "complete_ai"
  /\ isConfigured => endpointAnswers
  /\ \E reply \in Reachable(FinalReplies) :
       LET r == FinalResults(GenerateFinalAssessment(isConfigured, reply)) IN
         IF r.raised
         THEN /\ Return(p, Failure("completeAssessment", frame[p].sessionId,
                                   "raised"))
              /\ sent' = {}
         ELSE /\ Suspend(p, "complete_store",
                         [frame[p] EXCEPT !.results = r.value])
              /\ sent' = {Sent("results", frame[p].sessionId, "")}
  /\ UNCHANGED <<activeSessions, isConfigured, endpointUp, endpointAnswers,
                 now, cbVars, utilVars>>

\* the answers of storeCompletedAssessment: it catches every error of the
\* database call and reports it as success = false
StoreOutcomes == {"stored", "failed"}

\* a faulty variant: a failed store discards the results
StoreResultsChecked(results, outcome) ==
  IF outcome = "failed" THEN NoResults ELSE results

\* generateFinalResults after storeResults: storeResults ignores the answer
\* of the store and catches what it raises; the results are as computed
StoreResults(results, outcome) == results

\* completeAssessment after storeResults and generateFinalResults returned:
\* set the status and completedAt, up to the await of updateAssessmentStatus
MarkCompleted(p) ==
  /\ pc[p] = "complete_store"
  /\ activeSessions' =
       [activeSessions EXCEPT
          ![frame[p].sessionId].status = "completed",
          ![frame[p].sessionId].completedAt = now]
  /\ sent' = {Sent("status", frame[p].sessionId, "completed")}
  /\ \E outcome \in StoreOutcomes :
       Suspend(p, "complete_update",
               [frame[p] EXCEPT
                  !.results = StoreResults(frame[p].results, outcome),
                  !.stored = outcome])
  /\ UNCHANGED <<isConfigured, endpointUp, endpointAnswers, now, cbVars,
                 utilVars>>

\* completeAssessment returns the results
CompleteAssessmentReturn(p) ==
  /\ pc[p] = "complete_update"
  /\ Return(p, [Success("completeAssessment", frame[p].sessionId) EXCEPT
                  !.results = frame[p].results])
  /\ sent' = {}
  /\ UNCHANGED <<activeSessions, isConfigured, endpointUp, endpointAnswers,
                 now, cbVars, utilVars>>

\* one hour (60 * 60 * 1000 ms) in ticks of the clock: a tick is 30 minutes
OneHour == 2

\* a faulty variant: a session completed exactly one hour ago is expired
ExpiredInclusive(session, t) ==
  /\ session.status = "completed"
  /\ session.completedAt # Undefined
  /\ session.completedAt <= t - OneHour

\* cleanupCompletedSessions: the test that deletes a session
Expired(session, t) ==
  /\ session.status = "completed"
  /\ session.completedAt # Undefined
  /\ session.completedAt < t - OneHour

\* cleanupCompletedSessions, run between calls: deletes the expired sessions
\* and logs each of them
CleanupCompletedSessions ==
  /\ \A p \in Callers : pc[p] = "idle"
  /\ LET expired == {s \in DOMAIN activeSessions :
                       Expired(activeSessions[s], now)}
     IN /\ activeSessions' =
             [s \in DOMAIN activeSessions \ expired |-> activeSessions[s]]
        /\ sent' = {Sent("cleaned", s, "") : s \in expired}
  /\ returned' =
       [caller |-> 0,
        value |-> [NoResult EXCEPT !.op = "cleanupCompletedSessions"]]
  /\ UNCHANGED <<pc, frame, isConfigured, endpointUp, endpointAnswers, now,
                 cbVars, utilVars>>

SessionStep(p) ==
  \/ StartAssessment(p)
  \/ StartAssessmentReturn(p)
  \/ \E s \in SessionIds : AddResponseNotFound(p, s)
  \/ \E s \in SessionIds, r \in Responses : AddResponse(p, s, r)
  \/ AddResponseStoreRaised(p)
  \/ AddResponseNoBatch(p)
  \/ AddResponseGenerateInsight(p)
  \/ AnalyzeBatch(p)
  \/ AppendInsight(p)
  \/ AddResponseReturn(p)
  \/ \E s \in SessionIds : CompleteNotFound(p, s)
  \/ \E s \in SessionIds : CompleteTooEarly(p, s)
  \/ \E s \in SessionIds : CompleteAssessment(p, s)
  \/ GenerateFinalResults(p)
  \/ MarkCompleted(p)
  \/ CompleteAssessmentReturn(p)

(***************************************************************************)
(* CircuitBreaker (services/errorHandler.ts).  The map holds references:   *)
(* a call's local `state` is the stored object, or a new object when the   *)
(* key has none.                                                           *)
(***************************************************************************)
MaxFailureThreshold == 2
MaxSuccessThreshold == 2
MaxRecoveryTimeout == 2
MaxNow == 4
MaxInvocations == 6
NumBreakerCallers == 2

Keys == {"default"}
\* the calls of execute that may be in flight at once
BreakerCallers == 1..NumBreakerCallers
\* the caller of the one-call-at-a-time specification
CBCallers == {1}


\* the object execute builds for a key without stored state
InitialState ==
  [state |-> "closed", failureCount |-> 0, lastFailureTime |-> 0,
   successCount |-> 0]

\* the default value of execute's options parameter
DefaultOptions ==
  [failureThreshold |-> 5, recoveryTimeout |-> 60000, successThreshold |-> 3]

OptionSets ==
  [failureThreshold : 1..MaxFailureThreshold,
   recoveryTimeout : 1..MaxRecoveryTimeout,
   successThreshold : 1..MaxSuccessThreshold]

\* a faulty variant: the recovery test uses >= for >
RecoveryElapsedInclusive(state, opts, t) ==
  t - state.lastFailureTime >= opts.recoveryTimeout

\* the test `Date.now() - state.lastFailureTime > options.recoveryTimeout`
RecoveryElapsed(state, opts, t) ==
  t - state.lastFailureTime > opts.recoveryTimeout

\* a faulty variant: only a half-open success clears failureCount
OnSuccessKeepsFailures(state, opts) ==
  LET counted == [state EXCEPT
                    !.failureCount =
                      IF state.state = "half-open" THEN 0 ELSE @,
                    !.successCount = @ + 1]
  IN IF counted.state = "half-open"
        /\ counted.successCount >= opts.successThreshold
     THEN [counted EXCEPT !.state = "closed"]
     ELSE counted

\* the success branch of execute (after `await operation()`)
OnSuccess(state, opts) ==
  LET counted == [state EXCEPT !.failureCount = 0, !.successCount = @ + 1]
  IN IF counted.state = "half-open"
        /\ counted.successCount >= opts.successThreshold
     THEN [counted EXCEPT !.state = "closed"]
     ELSE counted

\* the catch branch of execute
OnFailure(state, opts, t) ==
  LET counted == [state EXCEPT !.failureCount = @ + 1,
                               !.lastFailureTime = t]
  IN IF counted.failureCount >= opts.failureThreshold
     THEN [counted EXCEPT !.state = "open"]
     ELSE counted

\* the object a call on `key` works on, and the heap that holds it
Lookup(key) ==
  IF key \in DOMAIN states
  THEN [obj |-> states[key], heap |-> heap]
  ELSE [obj |-> Len(heap) + 1, heap |-> Append(heap, InitialState)]

\* the state of the circuit of a key as a caller finds it
Circuit(key) ==
  IF key \in DOMAIN states THEN heap[states[key]] ELSE InitialState

\* execute on an open circuit before the recovery timeout: throws
ExecuteRejected(c, key) ==
  /\ cbPc[c] = "idle"
  /\ LET l == Lookup(key) IN
       /\ l.heap[l.obj].state = "open"
       /\ ~RecoveryElapsed(l.heap[l.obj], options, now)
       /\ heap' = l.heap
  /\ cbEvent' = "circuit_open"
  /\ UNCHANGED <<states, options, cbPc, cbObj, consecFailures, lastFailureAt,
                 probeSuccesses, invocations>>
  /\ UNCHANGED <<sessVars, now, utilVars>>

\* execute on an open circuit after the recovery timeout: half-opens the
\* circuit and invokes the operation
ExecuteProbe(c, key) ==
  /\ cbPc[c] = "idle"
  /\ invocations < MaxInvocations
  /\ LET l == Lookup(key) IN
       /\ l.heap[l.obj].state = "open"
       /\ RecoveryElapsed(l.heap[l.obj], options, now)
       /\ heap' = [l.heap EXCEPT ![l.obj].state = "half-open",
                                 ![l.obj].successCount = 0]
       /\ cbObj' = [cbObj EXCEPT ![c] = l.obj]
  /\ cbPc' = [cbPc EXCEPT ![c] = "running"]
  /\ cbEvent' = "invoked"
  /\ probeSuccesses' = 0
  /\ invocations' = invocations + 1
  /\ UNCHANGED <<states, options, consecFailures, lastFailureAt>>
  /\ UNCHANGED <<sessVars, now, utilVars>>

\* execute on a closed or half-open circuit: invokes the operation
ExecutePass(c, key) ==
  /\ cbPc[c] = "idle"
  /\ invocations < MaxInvocations
  /\ LET l == Lookup(key) IN
       /\ l.heap[l.obj].state # "open"
       /\ heap' = l.heap
       /\ cbObj' = [cbObj EXCEPT ![c] = l.obj]
  /\ cbPc' = [cbPc EXCEPT ![c] = "running"]
  /\ cbEvent' = "invoked"
  /\ invocations' = invocations + 1
  /\ UNCHANGED <<states, options, consecFailures, lastFailureAt,
                 probeSuccesses>>
  /\ UNCHANGED <<sessVars, now, utilVars>>

\* the awaited operation resolved
OperationSucceeds(c, key) ==
  /\ cbPc[c] = "running"
  /\ heap' = [heap EXCEPT ![cbObj[c]] = OnSuccess(@, options)]
  /\ states' = [k \in DOMAIN states \cup {key} |->
                  IF k = key THEN cbObj[c] ELSE states[k]]
  /\ cbPc' = [cbPc EXCEPT ![c] = "idle"]
  /\ cbObj' = [cbObj EXCEPT ![c] = 0]
  /\ cbEvent' = "succeeded"
  /\ consecFailures' = 0
  /\ probeSuccesses' = probeSuccesses + 1
  /\ UNCHANGED <<options, lastFailureAt, invocations>>
  /\ UNCHANGED <<sessVars, now, utilVars>>

\* the awaited operation raised
OperationFails(c, key) ==
  /\ cbPc[c] = "running"
  /\ heap' = [heap EXCEPT ![cbObj[c]] = OnFailure(@, options, now)]
  /\ states' = [k \in DOMAIN states \cup {key} |->
                  IF k = key THEN cbObj[c] ELSE states[k]]
  /\ cbPc' = [cbPc EXCEPT ![c] = "idle"]
  /\ cbObj' = [cbObj EXCEPT ![c] = 0]
  /\ cbEvent' = "failed"
  /\ consecFailures' = consecFailures + 1
  /\ lastFailureAt' = now
  /\ probeSuccesses' = 0
  /\ UNCHANGED <<options, invocations>>
  /\ UNCHANGED <<sessVars, now, utilVars>>

\* time passes
Tick ==
  /\ now < MaxNow
  /\ now' = now + 1
  /\ cbEvent' = "none"
  /\ UNCHANGED <<states, heap, options, cbPc, cbObj, consecFailures,
                 lastFailureAt, probeSuccesses, invocations>>
  /\ UNCHANGED <<sessVars, utilVars>>

(***************************************************************************)
(* RateLimiter (services/errorHandler.ts): a fixed window per key.         *)
(***************************************************************************)
MaxMaxRequests == 2
MaxWindowMs == 2
MaxRLCalls == 5

RLKeys == {"ip1", "ip2"}

RLOptionSets == [maxRequests : 0..MaxMaxRequests, windowMs : 0..MaxWindowMs]

\* the default values of checkLimit's parameters
DefaultLimiterOptions == [maxRequests |-> 100, windowMs |-> 900000]

\* history: a key that was never called has no window
NoWindow == [calls |-> 0, resetTime |-> 0]

\* the test `!limit || now > limit.resetTime`
WindowExpired(key, t) ==
  key \notin DOMAIN limits \/ t > limits[key].resetTime

\* a faulty variant: the limit test uses > for >=
LimitReachedOffByOne(limit, maxRequests) == limit.count > maxRequests

\* the test `limit.count >= maxRequests`
LimitReached(limit, maxRequests) == limit.count >= maxRequests

\* the state change and the answer of one call, common to checkLimit and
\* checkRateLimit; remaining is what checkRateLimit adds to the answer
Limit(key, maxRequests, windowMs) ==
  IF WindowExpired(key, now)
  THEN [limits |-> [k \in DOMAIN limits \cup {key} |->
                      IF k = key
                      THEN [count |-> 1, resetTime |-> now + windowMs]
                      ELSE limits[k]],
        allowed |-> TRUE, remaining |-> maxRequests - 1]
  ELSE IF LimitReached(limits[key], maxRequests)
  THEN [limits |-> limits, allowed |-> FALSE, remaining |-> 0]
  ELSE [limits |-> [limits EXCEPT ![key].count = @ + 1],
        allowed |-> TRUE,
        remaining |-> maxRequests - (limits[key].count + 1)]

\* history: the call is the first of a new window of the key, or one more
\* call in its current window
CountCall(key, windowMs) ==
  windowCalls' =
    [windowCalls EXCEPT
       ![key] = IF @.calls = 0 \/ now > @.resetTime
                THEN [calls |-> 1, resetTime |-> now + windowMs]
                ELSE [@ EXCEPT !.calls = @ + 1]]

\* RateLimiter.checkLimit(key, maxRequests, windowMs)
CheckLimit(key) ==
  /\ rlCalls < MaxRLCalls
  /\ LET r == Limit(key, rlOptions.maxRequests, rlOptions.windowMs) IN
       /\ limits' = r.limits
       /\ rlResult' = [method |-> "checkLimit", key |-> key,
                       allowed |-> r.allowed, remaining |-> Undefined]
  /\ CountCall(key, rlOptions.windowMs)
  /\ rlCalls' = rlCalls + 1
  /\ UNCHANGED <<rlOptions, sessVars, now, cbVars, rtVars, aiVars>>

\* checkRateLimit(key) of a limiter built with the same maxRequests, windowMs
CheckRateLimit(key) ==
  /\ rlCalls < MaxRLCalls
  /\ LET r == Limit(key, rlOptions.maxRequests, rlOptions.windowMs) IN
       /\ limits' = r.limits
       /\ rlResult' = [method |-> "checkRateLimit", key |-> key,
                       allowed |-> r.allowed, remaining |-> r.remaining]
  /\ CountCall(key, rlOptions.windowMs)
  /\ rlCalls' = rlCalls + 1
  /\ UNCHANGED <<rlOptions, sessVars, now, cbVars, rtVars, aiVars>>

NoLimiterResult ==
  [method |-> "", key |-> "", allowed |-> FALSE, remaining |-> Undefined]

(***************************************************************************)
(* RetryHandler.withRetry (services/errorHandler.ts).  An error is known   *)
(* by its class and by the invocation that raised it.                      *)
(***************************************************************************)
MaxMaxRetries == 3
MaxDelayMs == 2
MaxBackoffMultiplier == 2

RetryArgSets ==
  [maxRetries : 0..MaxMaxRetries, delayMs : 0..MaxDelayMs,
   backoffMultiplier : 1..MaxBackoffMultiplier]

\* the default values of withRetry's parameters
DefaultRetryArgs ==
  [maxRetries |-> 3, delayMs |-> 1000, backoffMultiplier |-> 2]

\* the classes of the errors an operation raises
ErrorKinds == {"validation", "authentication", "authorization", "external"}

Error(kind, id) == [kind |-> kind, id |-> id]

\* `let lastError: Error` before any assignment: undefined
NoError == Error("undefined", 0)

\* the outcome of an invocation that resolved
Resolved(id) == Error("none", id)

NoOutcome == [raised |-> FALSE, error |-> NoError, value |-> ""]

RECURSIVE Pow(_, _)
Pow(b, n) == IF n = 0 THEN 1 ELSE b * Pow(b, n - 1)

\* a faulty variant: the exponent is the number of the next attempt
DelayOfNextAttempt(delayMs, backoffMultiplier, n) ==
  delayMs * Pow(backoffMultiplier, n + 1)

\* `delayMs * Math.pow(backoffMultiplier, attempt)`
Delay(delayMs, backoffMultiplier, n) == delayMs * Pow(backoffMultiplier, n)

\* a faulty variant: authorization errors are retried
NotRetriedWithoutAuthorization(kind) ==
  kind \in {"validation", "authentication"}

\* the instanceof test on ValidationError, AuthenticationError and
\* AuthorizationError
NotRetried(kind) ==
  kind \in {"validation", "authentication", "authorization"}

\* `throw lastError!`
Throw(error) ==
  /\ rtPc' = "done"
  /\ rtOutcome' = [raised |-> TRUE, error |-> error, value |-> ""]

\* withRetry is called: the loop starts, or is skipped when maxRetries is 0
WithRetry ==
  /\ rtPc = "idle"
  /\ attempt' = 0
  /\ lastError' = NoError
  /\ IF 0 < rtArgs.maxRetries
     THEN rtPc' = "operation" /\ rtOutcome' = NoOutcome
     ELSE Throw(NoError)
  /\ UNCHANGED <<rtArgs, opErrors, rtDelays>>
  /\ UNCHANGED <<sessVars, now, cbVars, rlVars, aiVars>>

\* `return await operation()`: the operation resolved
OperationResolves ==
  /\ rtPc = "operation"
  /\ rtPc' = "done"
  /\ rtOutcome' = [raised |-> FALSE, error |-> NoError, value |-> "result"]
  /\ opErrors' = Append(opErrors, Resolved(Len(opErrors) + 1))
  /\ UNCHANGED <<rtArgs, attempt, lastError, rtDelays>>
  /\ UNCHANGED <<sessVars, now, cbVars, rlVars, aiVars>>

\* the operation raised: the catch block up to the await of the delay
OperationRaises(kind) ==
  /\ rtPc = "operation"
  /\ LET error == Error(kind, Len(opErrors) + 1) IN
       /\ lastError' = error
       /\ opErrors' = Append(opErrors, error)
       /\ IF attempt = rtArgs.maxRetries - 1 \/ NotRetried(kind)
          THEN Throw(error)
          ELSE rtPc' = "delay" /\ rtOutcome' = NoOutcome
  /\ UNCHANGED <<rtArgs, attempt, rtDelays>>
  /\ UNCHANGED <<sessVars, now, cbVars, rlVars, aiVars>>

\* the delay elapsed: the next round of the loop
DelayElapsed ==
  /\ rtPc = "delay"
  /\ rtDelays' = Append(rtDelays, Delay(rtArgs.delayMs,
                                        rtArgs.backoffMultiplier, attempt))
  /\ attempt' = attempt + 1
  /\ IF attempt + 1 < rtArgs.maxRetries
     THEN rtPc' = "operation" /\ rtOutcome' = NoOutcome
     ELSE Throw(lastError)
  /\ UNCHANGED <<rtArgs, lastError, opErrors>>
  /\ UNCHANGED <<sessVars, now, cbVars, rlVars, aiVars>>

(***************************************************************************)
(* The AI client and the engines applied to one reply of the endpoint:     *)
(* analyzeBatchN (RealTimeInsightEngine) with ClaudeAIService's            *)
(* generateInsight, and generateFinalResults (SkillAssessmentEngine) with  *)
(* generateFinalAssessment.                                                *)
(***************************************************************************)
Overshoot == 5

\* the numbers the AI may send for a percentage and for a skill level
Percentages == (0 - Overshoot)..(100 + Overshoot)
SkillValues == (0 - Overshoot)..(10 + Overshoot)
Roi10Values == {0, 10, 19, 20, 35}
PrioritySets ==
  {{}, {"critical"}, {"high"}, {"critical", "high"}, {"medium", "low"}}

\* every reply to an insight prompt: each field of the JSON object is
\* present or absent, the confidence is any number
AllInsightReplies ==
  { InsightReply("reject", FALSE, "", "", "", 0, ""),
    InsightReply("status", FALSE, "", "", "", 0, ""),
    InsightReply("text", FALSE, "", "", "", 0, "") }
  \cup { InsightReply("text", TRUE, c, t, i, conf, r) :
           c \in {"", AIChallenge}, t \in {"", AIText}, i \in {"", AIImpact},
           conf \in Percentages, r \in {"", AIReasoning} }

\* replies to the final-assessment prompt: any score with any challenges,
\* and any skill levels, multiplier and confidence
AllFinalReplies ==
  { FinalReply("reject", FALSE, 0, Skills(0, 0, 0, 0, 0), 0, 0, TRUE, {}),
    FinalReply("status", FALSE, 0, Skills(0, 0, 0, 0, 0), 0, 0, TRUE, {}),
    FinalReply("text", FALSE, 0, Skills(0, 0, 0, 0, 0), 0, 0, TRUE, {}) }
  \cup { FinalReply("text", TRUE, score, Skills(7, 6, 8, 7, 6), 30, 80,
                    isArray, priorities) :
           score \in Percentages, isArray \in BOOLEAN,
           priorities \in PrioritySets }
  \cup { FinalReply("text", TRUE, 55, Skills(v, 0 - v, v + 1, 10 - v, v),
                    roi10, conf, TRUE, {"medium", "low"}) :
           v \in SkillValues, roi10 \in Roi10Values, conf \in Percentages }

NoAIInput ==
  [op |-> "", configured |-> FALSE, batchNumber |-> 0,
   reply |-> InsightReply("", FALSE, "", "", "", 0, "")]

AIInputs ==
  [op : {"generateInsight"}, configured : BOOLEAN, batchNumber : 1..3,
   reply : AllInsightReplies]
  \cup [op : {"generateFinalResults"}, configured : BOOLEAN,
        batchNumber : {0}, reply : AllFinalReplies]

\* answer: what the client returned; insight, results: what the engine built
NoAIOutput ==
  [done |-> FALSE, raised |-> FALSE, answer |-> NoInsight,
   insight |-> NoInsight, results |-> NoResults]

\* analyzeBatchN on the reply, up to its await of storeInsight
ApplyAnalyzeBatch ==
  /\ aiInput.op = "generateInsight"
  /\ ~aiOutput.done
  /\ LET g == GenerateInsight(aiInput.configured, aiInput.reply) IN
       aiOutput' =
         [NoAIOutput EXCEPT
            !.done = TRUE,
            !.raised = g.raised,
            !.answer = g.value,
            !.insight = InsightData(aiInput.batchNumber, g.value)]
  /\ UNCHANGED <<aiInput, sessVars, now, cbVars, rlVars, rtVars>>

\* generateFinalResults on the reply, up to its await of storeResults
ApplyGenerateFinalResults ==
  /\ aiInput.op = "generateFinalResults"
  /\ ~aiOutput.done
  /\ LET a == GenerateFinalAssessment(aiInput.configured, aiInput.reply)
         r == FinalResults(a)
     IN aiOutput' =
          [NoAIOutput EXCEPT
             !.done = TRUE,
             !.raised = r.raised,
             !.answer = a,
             !.results = IF r.raised THEN NoResults ELSE r.value]
  /\ UNCHANGED <<aiInput, sessVars, now, cbVars, rlVars, rtVars>>

InitSession ==
  /\ activeSessions = <<>>
  /\ isConfigured \in BOOLEAN
  /\ endpointUp \in BOOLEAN
  /\ pc = [p \in Callers |-> "idle"]
  /\ frame = [p \in Callers |-> NoFrame]
  /\ returned = NoReturn
  /\ sent = {}

InitBreaker ==
  /\ states = <<>>
  /\ heap = <<>>
  /\ cbPc = [c \in BreakerCallers |-> "idle"]
  /\ cbObj = [c \in BreakerCallers |-> 0]
  /\ cbEvent = "none"
  /\ consecFailures = 0
  /\ lastFailureAt = 0
  /\ probeSuccesses = 0
  /\ invocations = 0

InitLimiter ==
  /\ limits = <<>>
  /\ rlCalls = 0
  /\ windowCalls = [k \in RLKeys |-> NoWindow]
  /\ rlResult = NoLimiterResult

InitRetry ==
  /\ rtPc = "idle"
  /\ attempt = 0
  /\ lastError = NoError
  /\ rtOutcome = NoOutcome
  /\ opErrors = <<>>
  /\ rtDelays = <<>>

\* the utilities at rest, with their default arguments
InitUtil ==
  /\ InitLimiter
  /\ rlOptions = DefaultLimiterOptions
  /\ InitRetry
  /\ rtArgs = DefaultRetryArgs
  /\ aiInput = NoAIInput
  /\ aiOutput = NoAIOutput

\* the session pipeline; the breaker is at rest with its default options
Init ==
  /\ InitSession
  /\ endpointAnswers = TRUE
  /\ InitBreaker
  /\ options = DefaultOptions
  /\ now = 0
  /\ InitUtil

\* calls run one at a time: each call finishes before the next starts
NextSeq == \E p \in SeqCallers : SessionStep(p)

SpecSeq == Init /\ [][NextSeq]_vars

\* calls of several callers overlap at their awaits
NextConc == \E p \in Callers : SessionStep(p)

\* with a credential and a reachable endpoint every reply can occur
InitConc ==
  /\ Init
  /\ isConfigured
  /\ endpointUp

SpecConc == InitConc /\ [][NextConc]_vars

\* calls one at a time, the clock, and the maintenance run between calls
NextGC ==
  \/ NextSeq
  \/ CleanupCompletedSessions
  \/ Tick

\* the cleanup does not depend on the AI client: it runs without a credential
InitGC ==
  /\ Init
  /\ ~isConfigured
  /\ ~endpointUp

SpecGC == InitGC /\ [][NextGC]_vars

\* the circuit breaker on its own, calls one at a time
InitCB ==
  /\ InitSession
  /\ ~isConfigured
  /\ ~endpointUp
  /\ endpointAnswers = TRUE
  /\ InitBreaker
  /\ options \in OptionSets
  /\ now = 0
  /\ InitUtil

NextCB ==
  \/ \E c \in CBCallers, key \in Keys :
       \/ ExecuteRejected(c, key)
       \/ ExecuteProbe(c, key)
       \/ ExecutePass(c, key)
       \/ OperationSucceeds(c, key)
       \/ OperationFails(c, key)
  \/ Tick

SpecCB == InitCB /\ [][NextCB]_vars

\* the circuit breaker with calls of execute overlapping at `await operation()`
NextCBConc ==
  \/ \E c \in BreakerCallers, key \in Keys :
       \/ ExecuteRejected(c, key)
       \/ ExecuteProbe(c, key)
       \/ ExecutePass(c, key)
       \/ OperationSucceeds(c, key)
       \/ OperationFails(c, key)
  \/ Tick

SpecCBConc == InitCB /\ [][NextCBConc]_vars

\* the session pipeline, calls one at a time, with an endpoint that may
\* never answer; a call that can take a step eventually takes it
InitLive ==
  /\ InitSession
  /\ endpointAnswers \in BOOLEAN
  /\ InitBreaker
  /\ options = DefaultOptions
  /\ now = 0
  /\ InitUtil

SpecLive == InitLive /\ [][NextSeq]_vars /\ WF_vars(NextSeq)

\* the breaker and the session at rest
InitRest ==
  /\ InitSession
  /\ ~isConfigured
  /\ ~endpointUp
  /\ endpointAnswers = TRUE
  /\ InitBreaker
  /\ options = DefaultOptions
  /\ now = 0

\* the rate limiter on its own
InitRL ==
  /\ InitRest
  /\ InitLimiter
  /\ rlOptions \in RLOptionSets
  /\ InitRetry
  /\ rtArgs = DefaultRetryArgs
  /\ aiInput = NoAIInput
  /\ aiOutput = NoAIOutput

NextRL ==
  \/ \E key \in RLKeys : CheckLimit(key)
  \/ \E key \in RLKeys : CheckRateLimit(key)
  \/ Tick

SpecRL == InitRL /\ [][NextRL]_vars

\* one call of withRetry
InitRetryCall ==
  /\ InitRest
  /\ InitLimiter
  /\ rlOptions = DefaultLimiterOptions
  /\ InitRetry
  /\ rtArgs \in RetryArgSets
  /\ aiInput = NoAIInput
  /\ aiOutput = NoAIOutput

NextRetry ==
  \/ WithRetry
  \/ OperationResolves
  \/ \E kind \in ErrorKinds : OperationRaises(kind)
  \/ DelayElapsed

SpecRetry == InitRetryCall /\ [][NextRetry]_vars

\* the AI client and the engines on one reply
InitAI ==
  /\ InitRest
  /\ InitLimiter
  /\ rlOptions = DefaultLimiterOptions
  /\ InitRetry
  /\ rtArgs = DefaultRetryArgs
  /\ aiInput \in AIInputs
  /\ aiOutput = NoAIOutput

NextAI ==
  \/ ApplyAnalyzeBatch
  \/ ApplyGenerateFinalResults

SpecAI == InitAI /\ [][NextAI]_vars

(***************************************************************************)
(* Properties of the session pipeline.                                     *)
(***************************************************************************)
Milestones == {4, 9, 12}

BatchOf(index) == IF index = 4 THEN 1 ELSE IF index = 9 THEN 2 ELSE 3

Rank(status) ==
  CASE status = "in_progress" -> 0
    [] status = "insight_generated" -> 1
    [] status = "completed" -> 2

\* C1: with calls running one at a time, every session holds at most 3
\* insights and no two insights of a session have the same batchNumber
C1_InsightsUnique ==
  \A s \in DOMAIN activeSessions :
    LET insights == activeSessions[s].insights IN
      /\ Len(insights) <= 3
      /\ \A i, j \in 1..Len(insights) :
           i # j => insights[i].batchNumber # insights[j].batchNumber

\* a session past its 12th response that holds the three insights
C1_Witness ==
  \E s \in DOMAIN activeSessions :
    /\ Len(activeSessions[s].insights) = 3
    /\ Len(activeSessions[s].responses) > 12

\* C2: the k-th addResponse call of a session invokes insight generation (it
\* reaches the AI client) if and only if k is 4, 9 or 12
C2_TriggersExactlyAtMilestones ==
  [][\A p \in Callers :
       (pc[p] = "add_store" /\ pc'[p] # "add_store")
         => ((pc'[p] = "add_ai") <=> (frame[p].index \in Milestones))]_vars

\* C3: the status of a session never regresses, also when an addResponse
\* call suspended at an await overlaps a completeAssessment call
C3_StatusMonotonic ==
  [][\A s \in DOMAIN activeSessions :
       Rank(activeSessions'[s].status) >= Rank(activeSessions[s].status)]_vars

\* C4: the AI client's generateInsight never raises, so every addResponse
\* that crosses a batch boundary ends with the insight of that batch appended
C4_BoundaryCrossingAppendsInsight ==
  [][/\ \A configured \in BOOLEAN, reply \in InsightReplies :
          ~GenerateInsight(configured, reply).raised
     /\ \A p \in Callers :
          (pc[p] # "idle" /\ pc'[p] = "idle"
             /\ returned'.value.op = "addResponse"
             /\ frame[p].index \in Milestones)
            => HasBatch(activeSessions'[frame[p].sessionId].insights,
                        BatchOf(frame[p].index))]_vars

\* C5: with the AI endpoint unreachable for every call, completeAssessment on
\* a session with 12 responses returns success with results whose
\* overallScore is 70 and roiMultiplier is at least 2.0, and the session is
\* completed
C5_CompletesUnderOutage ==
  (/\ ~endpointUp
   /\ returned.value.op = "completeAssessment"
   /\ returned.value.sessionId \in DOMAIN activeSessions
   /\ Len(activeSessions[returned.value.sessionId].responses) >= 12)
    => /\ returned.value.success
       /\ returned.value.results.overallScore = 70
       /\ returned.value.results.roiMultiplier10 >= 20
       /\ activeSessions[returned.value.sessionId].status = "completed"

\* a completion returned while the configured client found no endpoint
C5_Witness ==
  /\ ~endpointUp
  /\ isConfigured
  /\ returned.value.op = "completeAssessment"
  /\ returned.value.success
  /\ returned.value.results.overallScore = 70
  /\ Len(activeSessions[returned.value.sessionId].responses) = 12

\* C6: completeAssessment on a session with fewer than 12 responses returns
\* the completion-precondition error at once, leaves the session as it was,
\* computes no results and sends nothing to the persistence collaborator
C6_EarlyCompletionRejected ==
  [][\A p \in Callers, s \in DOMAIN activeSessions :
       (/\ pc[p] = "idle"
        /\ Len(activeSessions[s].responses) < 12
        /\ \/ pc'[p] = "complete_ai" /\ frame'[p].sessionId = s
           \/ /\ returned'.caller = p
              /\ returned'.value.op = "completeAssessment"
              /\ returned'.value.sessionId = s)
         => /\ pc'[p] = "idle"
            /\ ~returned'.value.success
            /\ returned'.value.error =
                 "Assessment not complete - need 12 responses"
            /\ returned'.value.results = NoResults
            /\ activeSessions' = activeSessions
            /\ sent' = {}]_vars

\* an early completion of a session that holds 11 responses and 2 insights
C6_Witness ==
  /\ returned.value.op = "completeAssessment"
  /\ ~returned.value.success
  /\ returned.value.sessionId \in DOMAIN activeSessions
  /\ Len(activeSessions[returned.value.sessionId].responses) = 11
  /\ Len(activeSessions[returned.value.sessionId].insights) = 2

(***************************************************************************)
(* Properties of the circuit breaker.                                      *)
(***************************************************************************)
\* a step in which a call of execute starts
CallStarts(c) ==
  cbPc[c] = "idle" /\ cbEvent' \in {"circuit_open", "invoked"}

\* C7: once failureThreshold consecutive failures are recorded, every call
\* fails with the circuit-open error without invoking the operation and
\* without touching the stored state, until more than recoveryTimeout has
\* elapsed since the last recorded failure; after that the call is attempted
C7_OpenFailsFast ==
  [][\A c \in CBCallers :
       (CallStarts(c) /\ consecFailures >= options.failureThreshold)
         => IF now - lastFailureAt > options.recoveryTimeout
            THEN cbEvent' = "invoked"
            ELSE /\ cbEvent' = "circuit_open"
                 /\ invocations' = invocations
                 /\ cbPc' = cbPc
                 /\ heap' = heap
                 /\ states' = states]_vars

\* a call rejected exactly recoveryTimeout after the last of two failures
C7_Witness ==
  /\ cbEvent = "circuit_open"
  /\ options.failureThreshold >= 2
  /\ consecFailures >= options.failureThreshold
  /\ now - lastFailureAt = options.recoveryTimeout

\* C8: a success while the circuit is closed resets failureCount to 0, and a
\* closed circuit opens only when failureThreshold failures occurred with no
\* success between them
C8_ClosedCountsConsecutiveFailures ==
  [][\A key \in Keys :
       /\ (Circuit(key).state = "closed" /\ cbEvent' = "succeeded")
            => Circuit(key)'.failureCount = 0
       /\ (Circuit(key).state = "closed" /\ Circuit(key)'.state = "open")
            => consecFailures' >= options.failureThreshold]_vars

\* a success on a closed circuit that had counted a failure
C8_Witness ==
  /\ cbEvent = "succeeded"
  /\ options.failureThreshold >= 2
  /\ Circuit("default").state = "closed"
  /\ Circuit("default").failureCount = 0
  /\ Circuit("default").lastFailureTime > 0

\* C9: a failed call on a half-open circuit puts it back to open, whatever
\* number of successful half-open calls came before
C9_HalfOpenFailureReopens ==
  [][\A key \in Keys :
       (Circuit(key).state = "half-open" /\ cbEvent' = "failed")
         => Circuit(key)'.state = "open"]_vars

\* C10: a half-open circuit closes exactly when successThreshold successful
\* calls in a row were made since it half-opened, and failureCount and
\* successCount are then both 0
C10_ClosesAfterConsecutiveSuccesses ==
  [][\A key \in Keys :
       /\ (Circuit(key).state = "half-open" /\ Circuit(key)'.state = "closed")
            => /\ probeSuccesses' = options.successThreshold
               /\ Circuit(key)'.failureCount = 0
               /\ Circuit(key)'.successCount = 0
       /\ (/\ Circuit(key).state = "half-open"
           /\ cbEvent' = "succeeded"
           /\ probeSuccesses' = options.successThreshold)
            => Circuit(key)'.state = "closed"]_vars

(***************************************************************************)
(* Properties of the rate limiter.                                         *)
(***************************************************************************)
\* C11: for maxRequests >= 1, a call is allowed if and only if it is among
\* the first maxRequests calls of its key's window; a denied call leaves the
\* limiter's state as it was; the first call after the window's resetTime
\* has passed starts a new window with count 1 and is allowed
C11_WindowAllowsMaxRequests ==
  [][\A key \in RLKeys :
       (/\ rlCalls' = rlCalls + 1
        /\ rlResult'.key = key
        /\ rlOptions.maxRequests >= 1)
         => LET w == windowCalls'[key] IN
              /\ rlResult'.allowed <=> (w.calls <= rlOptions.maxRequests)
              /\ ~rlResult'.allowed => limits' = limits
              /\ (key \in DOMAIN limits /\ now > limits[key].resetTime)
                   => /\ rlResult'.allowed
                      /\ limits'[key] =
                           [count |-> 1,
                            resetTime |-> now + rlOptions.windowMs]]_vars

\* a call denied at the very resetTime of a window that allowed two calls
C11_Witness ==
  /\ rlResult.method = "checkLimit"
  /\ ~rlResult.allowed
  /\ rlOptions.maxRequests = 2
  /\ rlOptions.windowMs > 0
  /\ windowCalls[rlResult.key].calls = 3
  /\ now = limits[rlResult.key].resetTime
  /\ limits[rlResult.key].count = 2

(***************************************************************************)
(* Properties of withRetry.                                                *)
(***************************************************************************)
\* C12: when the first invocation of the operation raises a validation,
\* authentication or authorization error, withRetry has invoked the operation
\* once, waited no delay, and raised that same error
C12_NonRetryableRaisedAtOnce ==
  (/\ Len(opErrors) >= 1
   /\ opErrors[1].kind \in {"validation", "authentication", "authorization"})
    => /\ Len(opErrors) = 1
       /\ rtDelays = <<>>
       /\ rtPc = "done"
       /\ rtOutcome.raised
       /\ rtOutcome.error = opErrors[1]

\* an authorization error raised by the first of three allowed attempts
C12_Witness ==
  /\ rtArgs.maxRetries = 3
  /\ rtPc = "done"
  /\ Len(opErrors) = 1
  /\ opErrors[1].kind = "authorization"
  /\ rtOutcome.raised

\* every invocation so far failed with an external-service error
AlwaysFailsRetryable ==
  \A i \in 1..Len(opErrors) : opErrors[i].kind = "external"

\* the delays waited are baseDelay * backoffMultiplier^n, one before each
\* retry, and there are at most maxRetries retries
RetriesAndDelays ==
  /\ Len(opErrors) - 1 <= rtArgs.maxRetries
  /\ Len(rtDelays) >= Len(opErrors) - 1
  /\ \A n \in 0..(Len(rtDelays) - 1) :
       rtDelays[n + 1] = rtArgs.delayMs * Pow(rtArgs.backoffMultiplier, n)

StrictlyIncreasing(seq) ==
  \A n \in 1..(Len(seq) - 1) : seq[n] < seq[n + 1]

\* C13: for an operation that always fails with a retryable error, the
\* operation is retried at most maxRetries times, the delay before the retry
\* that follows failed attempt n is baseDelay * backoffMultiplier^n, and for
\* backoffMultiplier > 1 the successive delays are strictly increasing
C13_BackoffDelays ==
  AlwaysFailsRetryable
    => /\ RetriesAndDelays
       /\ rtArgs.backoffMultiplier > 1 => StrictlyIncreasing(rtDelays)

\* C13 as amended: the delays are strictly increasing for
\* backoffMultiplier > 1 and baseDelay > 0
C13_BackoffDelaysPositiveBase ==
  AlwaysFailsRetryable
    => /\ RetriesAndDelays
       /\ (rtArgs.backoffMultiplier > 1 /\ rtArgs.delayMs > 0)
            => StrictlyIncreasing(rtDelays)

\* three failed attempts with the delays 2 and 4 between them
C13_Witness ==
  /\ AlwaysFailsRetryable
  /\ rtPc = "done"
  /\ rtOutcome.raised
  /\ Len(opErrors) = 3
  /\ rtDelays = <<2, 4>>

\* C14: for every maxRetries >= 0, whenever withRetry raises, the operation
\* was invoked at least once and the raised value is the error raised by the
\* last invocation
C14_RaisesLastError ==
  (rtPc = "done" /\ rtOutcome.raised)
    => /\ Len(opErrors) >= 1
       /\ rtOutcome.error = opErrors[Len(opErrors)]

(***************************************************************************)
(* Properties of the AI client and the engines.                            *)
(***************************************************************************)
\* C15: every call to the AI endpoint is made inside CircuitBreaker.execute
\* and none while the circuit is open, and when the endpoint fails the call
\* is retried before generateInsight or generateFinalAssessment answers
\* with the fallback
C15_EndpointCallsGuarded ==
  [][\A p \in Callers :
       /\ (\E m \in sent' : m.kind = "fetch")
            => /\ cbEvent' = "invoked"
               /\ \A key \in Keys : Circuit(key).state # "open"
       /\ (/\ isConfigured
           /\ ~endpointUp
           /\ pc[p] \in {"add_ai", "complete_ai"}
           /\ pc'[p] # pc[p])
            => frame[p].aiCalls >= 2]_vars

\* C16: an addResponse call that waits for the AI client's answer eventually
\* returns, also when the endpoint never answers
C16_InsightGenerationReturns ==
  \A p \in SeqCallers : (pc[p] = "add_ai") ~> (pc[p] = "idle")

\* the JSON object of an insight reply lacks one of the five fields
LacksField(reply) ==
  \/ reply.challengeIdentified = ""
  \/ reply.insight = ""
  \/ reply.businessImpact = ""
  \/ reply.confidence = 0
  \/ reply.reasoning = ""

\* C17: when the reply holds no JSON object, or one that lacks any of
\* challengeIdentified, insight, businessImpact, confidence and reasoning,
\* generateInsight returns the fallback insight
C17_PartialPayloadFallsBack ==
  (/\ aiInput.op = "generateInsight"
   /\ aiOutput.done
   /\ aiInput.configured
   /\ aiInput.reply.kind = "text"
   /\ ~aiInput.reply.hasJson \/ LacksField(aiInput.reply))
    => aiOutput.answer = GetFallbackInsight

\* C18: whatever confidence the AI sends, nothing is raised, the insight's
\* confidence lies in [60,95] and for the batches 2 and 3 in [70,95]; the
\* confidence of the results lies in [70,95]; so do the fallback values
C18_ConfidenceClamped ==
  /\ (aiInput.op = "generateInsight" /\ aiOutput.done)
       => /\ ~aiOutput.raised
          /\ aiOutput.insight.confidence \in 60..95
          /\ aiInput.batchNumber >= 2
               => aiOutput.insight.confidence \in 70..95
  /\ (aiInput.op = "generateFinalResults" /\ aiOutput.done
        /\ ~aiOutput.raised)
       => aiOutput.results.confidence \in 70..95
  /\ GetFallbackInsight.confidence \in 70..95
  /\ GetFallbackAssessment.confidence \in 70..95

\* C19: the results generateFinalResults returns have overallScore in
\* [0,100], each of the five skill levels in [0,10] and roiMultiplier >= 2.0
C19_ScoresClamped ==
  (aiInput.op = "generateFinalResults" /\ aiOutput.done /\ ~aiOutput.raised)
    => /\ aiOutput.results.overallScore \in 0..100
       /\ \A n \in SkillNames : aiOutput.results.skillLevels[n] \in 0..10
       /\ aiOutput.results.roiMultiplier10 >= 20

\* results for a payload with skill levels above 10 and below 0 and a
\* multiplier of 1.0
C19_Witness ==
  /\ aiInput.op = "generateFinalResults"
  /\ aiInput.configured
  /\ aiInput.reply.kind = "text"
  /\ aiInput.reply.skillLevels.customerAnalysis > 10
  /\ aiInput.reply.skillLevels.businessCommunication < 0
  /\ aiInput.reply.roiMultiplier10 = 10
  /\ aiOutput.done
  /\ ~aiOutput.raised
  /\ aiOutput.results.skillLevels.customerAnalysis = 10
  /\ aiOutput.results.roiMultiplier10 = 20

\* C20: in the results generateFinalResults returns, isHighPriority is true
\* exactly when overallScore < 60; leadPriority is high when overallScore <
\* 40 or a challenge is critical, else medium when overallScore < 60 or a
\* challenge is high, else low; impactTimeline is long_term below 40,
\* medium_term below 70, else short_term
C20_DerivedFields ==
  (aiInput.op = "generateFinalResults" /\ aiOutput.done /\ ~aiOutput.raised)
    => LET r == aiOutput.results
           critical == r.overallScore < 40 \/ "critical" \in r.priorities
           high == r.overallScore < 60 \/ "high" \in r.priorities
       IN /\ r.isHighPriority <=> r.overallScore < 60
          /\ critical => r.leadPriority = "high"
          /\ (~critical /\ high) => r.leadPriority = "medium"
          /\ (~critical /\ ~high) => r.leadPriority = "low"
          /\ r.overallScore < 40 => r.impactTimeline = "long_term"
          /\ (r.overallScore >= 40 /\ r.overallScore < 70)
               => r.impactTimeline = "medium_term"
          /\ r.overallScore >= 70 => r.impactTimeline = "short_term"

\* results with a score of 60 or more and a critical challenge: the lead
\* priority is high and isHighPriority is false
C20_Witness ==
  /\ aiInput.op = "generateFinalResults"
  /\ aiInput.configured
  /\ aiOutput.done
  /\ ~aiOutput.raised
  /\ aiOutput.results.overallScore >= 60
  /\ aiOutput.results.overallScore < 70
  /\ "critical" \in aiOutput.results.priorities
  /\ aiOutput.results.leadPriority = "high"
  /\ ~aiOutput.results.isHighPriority
  /\ aiOutput.results.impactTimeline = "medium_term"

(***************************************************************************)
(* Properties of persistence failures and of the session store.            *)
(***************************************************************************)
\* C21: when storeCompletedAssessment reports a failure while the final
\* results are stored, generateFinalResults returns the results as computed
\* and completeAssessment returns them with success, the session completed
C21_StoreFailureKeepsResults ==
  [][\A p \in Callers :
       /\ (pc[p] = "complete_store" /\ pc'[p] = "complete_update"
             /\ frame'[p].stored = "failed")
            => /\ frame'[p].results = frame[p].results
               /\ frame'[p].results.overallScore \in 0..100
       /\ (pc[p] = "complete_update" /\ pc'[p] = "idle"
             /\ frame[p].stored = "failed")
            => /\ returned'.value.op = "completeAssessment"
               /\ returned'.value.success
               /\ returned'.value.results = frame[p].results
               /\ activeSessions'[frame[p].sessionId].status
                    = "completed"]_vars

\* a completion about to return results computed from the AI's reply after
\* the store of these results failed
C21_Witness ==
  \E p \in Callers :
    /\ pc[p] = "complete_update"
    /\ frame[p].stored = "failed"
    /\ frame[p].results.overallScore \in 0..100
    /\ frame[p].results.overallScore # 70
    /\ activeSessions[frame[p].sessionId].status = "completed"

\* C22: a failure of the persistence write inside addResponse is not passed
\* back and does not stop the pipeline: however the write ends, the response
\* stays appended, a call that returns reports success, and the call of a
\* 4th, 9th or 12th response goes on to generate the insight
C22_StoreFailureNotPassedBack ==
  [][\A p \in Callers :
       (pc[p] = "add_store" /\ pc'[p] # "add_store")
         => /\ Len(activeSessions'[frame[p].sessionId].responses)
                 >= frame[p].index
            /\ (pc'[p] = "idle" => returned'.value.success)
            /\ (frame[p].index \in Milestones
                  => pc'[p] = "add_ai")]_vars

\* an insight with all its fields
CompleteInsight(i) ==
  /\ i.batchNumber \in 1..3
  /\ i.questionRange = QuestionRange(i.batchNumber)
  /\ i.insight # ""
  /\ i.confidence \in 60..95

InsightsBelow(insights, n) ==
  LET Below(i) == i.batchNumber < n IN SelectSeq(insights, Below)

C26_OverlapKeepsOneInsightPerBoundary ==
  [][/\ \A s \in DOMAIN activeSessions' :
          \A i, j \in 1..Len(activeSessions'[s].insights) :
            i # j => activeSessions'[s].insights[i].batchNumber
                       # activeSessions'[s].insights[j].batchNumber
     /\ \A p \in Callers :
          (/\ pc[p] = "add_store"
           /\ pc'[p] = "idle"
           /\ returned'.value.success
           /\ frame[p].index \in Milestones)
            => HasBatch(activeSessions'[frame[p].sessionId].insights,
                        BatchOf(frame[p].index))]_vars

\* C27: execute counts every failure also when calls on a key overlap: once
\* failureThreshold calls were made on a key, all of them failed and none is
\* in flight any more, the circuit of the key is open
C27_OverlappingFailuresOpen ==
  \A key \in Keys :
    (/\ \A c \in BreakerCallers : cbPc[c] = "idle"
     /\ invocations = options.failureThreshold
     /\ consecFailures = invocations)
      => Circuit(key).state = "open"

\* C28: a session never holds more than 12 responses, and addResponse
\* appends only to a session that has fewer than 12 responses and is not
\* completed: on any other session it is rejected and changes nothing
C28_FullOrCompletedSessionFrozen ==
  [][/\ \A s \in DOMAIN activeSessions' :
          Len(activeSessions'[s].responses) <= 12
     /\ \A p \in Callers, s \in DOMAIN activeSessions :
          (/\ Len(activeSessions[s].responses) >= 12
                \/ activeSessions[s].status = "completed"
           /\ pc[p] = "idle"
           /\ pc'[p] = "add_store"
           /\ frame'[p].sessionId = s)
            => /\ activeSessions' = activeSessions
               /\ ~returned'.value.success]_vars

\* C29: startAssessment is all-or-nothing: when it reports failure (success
\* false, empty sessionId) the session it built is not in the store
C29_FailedStartAddsNoSession ==
  [][\A p \in Callers :
       (/\ pc[p] = "start_create"
        /\ pc'[p] = "idle"
        /\ returned'.value.op = "startAssessment"
        /\ ~returned'.value.success)
         => /\ returned'.value.sessionId = 0
            /\ frame[p].sessionId \notin DOMAIN activeSessions']_vars

\* C30: clamping of the AI's final assessment changes only out-of-range
\* values: a returned overallScore in 0..100 and a returned skill level in
\* 0..10 appear unchanged in the results; a returned score of 0 stays 0
C30_ClampingKeepsInRangeValues ==
  (/\ aiInput.op = "generateFinalResults"
   /\ aiInput.configured
   /\ aiInput.reply.kind = "text"
   /\ aiInput.reply.hasJson
   /\ aiOutput.done
   /\ ~aiOutput.raised)
    => /\ aiInput.reply.overallScore \in 0..100
            => aiOutput.results.overallScore = aiInput.reply.overallScore
       /\ \A n \in SkillNames :
            aiInput.reply.skillLevels[n] \in 0..10
              => aiOutput.results.skillLevels[n]
                   = aiInput.reply.skillLevels[n]

====
